---- MODULE Spec2Model ----
(***************************************************************************)
(* State-machine model of swanspawner.SwanSpawner                          *)
(* (src/SwanSpawner/swanspawner/swanspawner.py).                           *)
(*                                                                         *)
(* Spec      : one spawner object over its life: form submissions,         *)
(*             start attempts (stepwise), get_env calls.                   *)
(* SpecExit  : the calls of the hub over a session: form submissions,      *)
(*             start attempts, poll and stop (each suspended at its yield  *)
(*             and resumed later), with the metric emitters.               *)
(* SpecEnv   : get_env under every configuration it reads, with the rows   *)
(*             its reservations leave in the host's connection table.      *)
(* SpecPort  : get_reserved_port, two callers sharing one host's           *)
(*             connection table.                                           *)
(***************************************************************************)
EXTENDS Integers, Sequences, FiniteSets, TLC

(***************************************************************************)
(* Strings the code inspects character-wise are sequences of characters.   *)
(***************************************************************************)
RelStable == <<"9", "6">>
RelDev == <<"d", "e", "v", "3">>
Releases == {RelStable, RelDev}
Platforms == {"x86_64"}
ClusterNames == {"none", "k8s", "nxcals", "hadalytic"}
TokenValues == {"t1"}

\* `sub in s` of Python for sequences of characters
Contains(sub, s) ==
    \E i \in 0..(Len(s) - Len(sub)) :
        \A j \in 1..Len(sub) : s[i + j] = sub[j]

\* trait defaults and configuration of the spawner
lcg_rel_field == "LCG-rel"
platform_field == "platform"
user_script_env_field == "scriptenv"
user_n_cores == "ncores"
user_memory == "memory"
spark_cluster_field == "spark-cluster"
available_cores == <<"1">>
available_memory == <<"8">>
OptionKeys ==
    {lcg_rel_field, platform_field, user_script_env_field,
     spark_cluster_field, user_n_cores, user_memory}

\* the lists of core counts a deployment offers: the default of the trait,
\* or a list set in the configuration file
CoreOffers == {available_cores, <<"1", "2">>}

\* int() of the strings offered as core counts
ToInt(s) == CASE s = "1" -> 1 [] s = "2" -> 2 [] s = "7" -> 7

InSeq(x, s) == \E i \in 1..Len(s) : s[i] = x

\* dictionaries are functions over their key set
EmptyDict == [k \in {} |-> ""]
Put(d, k, v) == [x \in (DOMAIN d) \cup {k} |-> IF x = k THEN v ELSE d[x]]
Pop(d, k) == [x \in (DOMAIN d) \ {k} |-> d[x]]
Update(d, e) ==
    [x \in (DOMAIN d) \cup (DOMAIN e) |-> IF x \in DOMAIN e THEN e[x] ELSE d[x]]

Ev(k, a) == [ev |-> k, arg |-> a]
Err(c, m) == [cls |-> c, msg |-> m]
NoExc == Err("None", "")

VARIABLES
    cfg,            \* configurable traits, fixed at construction
    user_options,   \* self.user_options
    offload,        \* self.offload
    env,            \* self.env, the credential entries start() writes
    fs,             \* the files start() tests with os.path.exists / reads
    pc,             \* position of the start() call in flight
    stage,          \* last step of the current start() that completed
    exc,            \* exception caught by start()'s except clause
    outcome,        \* what the caller of start() got
    trace,          \* calls, metrics and raises of the current start()
    limits,         \* cpu_period/cpu_quota/cpu_limit/mem_limit
    bindings,       \* extra_host_config['port_bindings'], extra_create_kwargs['ports']
    launch,         \* result of the last get_env()
    waiting,        \* the coroutines suspended at their yield
    table,          \* the host's connection table (SpecPort)
    proc            \* the get_reserved_port callers (SpecPort)

lifeVars ==
    <<cfg, user_options, offload, env, fs, pc, stage, exc, outcome, trace,
      limits, bindings, launch, waiting>>
portVars == <<table, proc>>
vars == <<lifeVars, portVars>>

\* str() of a sequence of characters
RECURSIVE Str(_)
Str(cs) == IF cs = <<>> THEN "" ELSE Head(cs) \o Str(Tail(cs))

\* ",".join(list of strings)
RECURSIVE Join(_)
Join(ss) ==
    IF ss = <<>> THEN ""
    ELSE IF Len(ss) = 1 THEN ss[1]
    ELSE ss[1] \o "," \o Join(Tail(ss))

\* settings of the extra_env trait: none, or overriding computed variables
ExtraEnvs ==
    {EmptyDict,
     [HOME |-> "/extra/home", SPARK_PORTS |-> "extra"],
     [USER |-> "extra", MAX_MEMORY |-> "extra"]}

(***************************************************************************)
(* Construction                                                            *)
(***************************************************************************)
\* number of reservations of one get_env() and width of the port range
MaxPorts == 1
MaxSessions == 2
MaxSpan == 2
spark_session_port_range_start == 5001

Configs ==
    [local_home : BOOLEAN,
     auth_script : {"", "/srv/auth.sh"},
     metrics_on : BOOLEAN,
     backend : {"docker", "kube"},
     use_internal_ip : BOOLEAN,
     extra_env : ExtraEnvs,
     available_cores : CoreOffers,
     spark_session_num_ports : 1..MaxPorts,
     spark_max_sessions : 1..MaxSessions,
     spark_session_port_range_end :
        spark_session_port_range_start..(spark_session_port_range_start + MaxSpan - 1)]

\* the configurations the life of a spawner is explored under
LifeConfigs ==
    {c \in Configs :
        /\ c.auth_script # ""
        /\ ~c.use_internal_ip
        /\ c.extra_env = EmptyDict
        /\ c.available_cores = available_cores
        /\ c.spark_session_num_ports = MaxPorts
        /\ c.spark_max_sessions = 1
        /\ c.spark_session_port_range_end = spark_session_port_range_start + MaxSpan - 1}

\* the configurations the calls of the hub are explored under: those of
\* the life of a spawner, with either list of core counts
ExitConfigs ==
    {c \in Configs :
        \E d \in LifeConfigs : c = [d EXCEPT !.available_cores = c.available_cores]}

\* the configurations get_env() is explored under: every setting it reads
EnvConfigs ==
    {c \in Configs :
        /\ c.auth_script = ""
        /\ c.metrics_on
        /\ c.available_cores = available_cores
        /\ c.spark_session_port_range_end = spark_session_port_range_start + MaxSpan - 1}

\* hasattr(self, 'extra_host_config') / hasattr(self, 'extra_create_kwargs')
HasHostConfig == cfg.backend = "docker"
HasCreateKwargs == cfg.backend = "docker"

MkOptions(l, p, s, c, n, m) ==
    [k \in OptionKeys |->
        CASE k = lcg_rel_field -> l
          [] k = platform_field -> p
          [] k = user_script_env_field -> s
          [] k = spark_cluster_field -> c
          [] k = user_n_cores -> n
          [] k = user_memory -> m]

ScriptEnvs == {""}
CoreChoices == {"2", "7"}
MemoryChoices == {"64"}

\* what a submitted form can hold: every field, or one field missing
FullForms ==
    {MkOptions(l, p, s, c, n, m) :
        l \in Releases, p \in Platforms, s \in ScriptEnvs,
        c \in ClusterNames, n \in CoreChoices, m \in MemoryChoices}
Forms ==
    FullForms \cup {Pop(f, spark_cluster_field) : f \in FullForms}
        \cup {Pop(MkOptions(RelDev, "x86_64", "", "k8s", "2", "64"), k) : k \in OptionKeys}

\* the option dictionaries options_from_form can return
OptionDicts ==
    {MkOptions(l, p, s, c, ToInt(n), m \o "G") :
        l \in Releases, p \in Platforms, s \in ScriptEnvs, c \in ClusterNames,
        n \in {cfg.available_cores[i] : i \in 1..Len(cfg.available_cores)},
        m \in {available_memory[i] : i \in 1..Len(available_memory)}}

Unseen == [root |-> "unseen", stack |-> "unseen", kubeconfig |-> "unseen",
           hadoop_toks |-> "unseen", webhdfs_toks |-> "unseen"]
NoOutcome == [kind |-> "none", exc |-> NoExc]
NoLaunch ==
    [status |-> "none", env |-> EmptyDict, reserved |-> <<>>, exc |-> NoExc,
     again |-> FALSE]
NoLimits == [cpu_period |-> -1, cpu_quota |-> -1, cpu_limit |-> -1, mem_limit |-> ""]
NoBindings == [port_bindings |-> EmptyDict, ports |-> <<>>]

PortInit ==
    /\ table = {}
    /\ proc = <<>>

\* __init__: offload is False; user_options is whatever the hub constructed
\* the spawner with (nothing, or options posted without a form)
Init ==
    /\ cfg \in LifeConfigs
    /\ user_options \in {EmptyDict} \cup OptionDicts
    /\ offload = FALSE
    /\ env = EmptyDict
    /\ fs = Unseen
    /\ pc = "idle"
    /\ stage = "none"
    /\ exc = NoExc
    /\ outcome = NoOutcome
    /\ trace = <<>>
    /\ limits = NoLimits
    /\ bindings = NoBindings
    /\ launch = NoLaunch
    /\ waiting = {}
    /\ PortInit

Resting == pc \in {"idle", "failed", "returned", "stopped", "polled"}

(***************************************************************************)
(* options_from_form                                                       *)
(***************************************************************************)
FormCluster(formdata) ==
    IF spark_cluster_field \in DOMAIN formdata
    THEN formdata[spark_cluster_field] ELSE "none"
FormCores(formdata) ==
    IF InSeq(formdata[user_n_cores], cfg.available_cores)
    THEN ToInt(formdata[user_n_cores]) ELSE ToInt(cfg.available_cores[1])
FormMemory(formdata) ==
    IF InSeq(formdata[user_memory], available_memory)
    THEN formdata[user_memory] \o "G" ELSE available_memory[1] \o "G"

options_from_form(formdata) ==
    MkOptions(formdata[lcg_rel_field], formdata[platform_field],
              formdata[user_script_env_field], FormCluster(formdata),
              FormCores(formdata), FormMemory(formdata))

FormOffload(options) == options[spark_cluster_field] # "none"

\* the hub hands the submitted form to options_from_form and stores the
\* returned options; a missing mandatory field is a KeyError and nothing
\* of the spawner changes.  What is recorded about the last start() and
\* get_env() belongs to the request replaced, and is dropped.
OptionsFromForm ==
    /\ Resting
    /\ \E formdata \in Forms :
        IF (OptionKeys \ {spark_cluster_field}) \subseteq DOMAIN formdata
        THEN /\ user_options' = options_from_form(formdata)
             /\ offload' = FormOffload(options_from_form(formdata))
             /\ pc' = "idle"
             /\ stage' = "none"
             /\ exc' = NoExc
             /\ outcome' = NoOutcome
             /\ trace' = <<>>
             /\ fs' = Unseen
             /\ launch' = NoLaunch
        ELSE UNCHANGED <<user_options, offload, pc, stage, exc, outcome,
                        trace, fs, launch>>
    /\ UNCHANGED <<cfg, env, limits, bindings, waiting, portVars>>

(***************************************************************************)
(* start(), one action per block of the method                             *)
(***************************************************************************)
SubprocessResults == {"exit0", "exit1", "timeout"}
TimeoutExpired == Err("TimeoutExpired", "")

Continue(next, done, evs) ==
    /\ pc' = next
    /\ stage' = done
    /\ trace' = trace \o evs
    /\ UNCHANGED exc

\* an exception raised inside the try block reaches the except clause
Raise(e, evs) ==
    /\ pc' = "except"
    /\ exc' = e
    /\ trace' = trace \o evs \o <<Ev("raise", e.cls)>>
    /\ UNCHANGED stage

StartReads ==
    {platform_field, lcg_rel_field, spark_cluster_field, user_n_cores, user_memory}

\* lines 291-296, before the try: a missing option is a KeyError that
\* leaves start() directly
StartBegin ==
    /\ Resting
    /\ fs' = Unseen
    /\ launch' = NoLaunch
    /\ IF StartReads \subseteq DOMAIN user_options
       THEN /\ pc' = "prime"
            /\ stage' = "read"
            /\ exc' = NoExc
            /\ outcome' = NoOutcome
            /\ trace' = <<>>
       ELSE /\ pc' = "failed"
            /\ stage' = "none"
            /\ exc' = NoExc
            /\ outcome' = [kind |-> "raised", exc |-> Err("KeyError", "option")]
            /\ trace' = <<Ev("raise", "KeyError")>>
    /\ UNCHANGED <<cfg, user_options, offload, env, limits, bindings, waiting, portVars>>

Cluster == user_options[spark_cluster_field]
LcgRel == user_options[lcg_rel_field]

\* lines 299-302
StartPrime ==
    /\ pc = "prime"
    /\ IF ~cfg.local_home /\ cfg.auth_script # ""
       THEN \E r \in SubprocessResults :
                IF r = "timeout"
                THEN Raise(TimeoutExpired, <<Ev("call", "auth_script")>>)
                ELSE Continue("validate", "prime", <<Ev("call", "auth_script")>>)
       ELSE Continue("validate", "prime", <<>>)
    /\ UNCHANGED <<cfg, user_options, offload, env, fs, outcome, limits,
                   bindings, launch, waiting, portVars>>

\* lines 304-316; the step after them is the offload block or the limits
StartValidate ==
    /\ pc = "validate"
    /\ \E root \in {"present", "absent"}, stack \in {"present", "absent"} :
        /\ root = "absent" => stack = "absent"
        /\ IF root = "absent"
           THEN /\ fs' = [fs EXCEPT !.root = root]
                /\ Raise(Err("ValueError", "stack_root"), <<>>)
           ELSE /\ fs' = [fs EXCEPT !.root = root, !.stack = stack]
                /\ IF stack = "absent"
                   THEN Raise(Err("ValueError", "not_available"), <<>>)
                   ELSE Continue(IF offload THEN "gate" ELSE "limits", "validate", <<>>)
    /\ UNCHANGED <<cfg, user_options, offload, env, outcome, limits,
                   bindings, launch, waiting, portVars>>

\* the gate left out
GateRejectsNothing(cluster, lcg_rel) == FALSE

\* line 321
GateRejects(cluster, lcg_rel) ==
    cluster = "k8s" /\ ~Contains(<<"d", "e", "v">>, lcg_rel)

\* lines 319-327
StartGate ==
    /\ pc = "gate"
    /\ IF GateRejects(Cluster, LcgRel)
       THEN Raise(Err("ValueError", "k8s_stack_unsupported"), <<>>)
       ELSE Continue("clear", "gate", <<>>)
    /\ UNCHANGED <<cfg, user_options, offload, env, fs, outcome, limits,
                   bindings, launch, waiting, portVars>>

ClearedKeys == {"WEBHDFS_TOKEN", "HADOOP_TOKEN_FILE_LOCATION", "KUBECONFIG"}
\* the pops of lines 335-336 left out
ClearStaleKubeOnly(e) == [k \in (DOMAIN e) \ {"KUBECONFIG"} |-> e[k]]
ClearStale(e) == [k \in (DOMAIN e) \ ClearedKeys |-> e[k]]

\* lines 335-337
StartClear ==
    /\ pc = "clear"
    /\ env' = ClearStale(env)
    /\ Continue(IF Cluster = "k8s" THEN "init_k8s" ELSE "hadoop_auth", "clear", <<>>)
    /\ UNCHANGED <<cfg, user_options, offload, fs, outcome, limits,
                   bindings, launch, waiting, portVars>>

\* lines 341-345
StartInitK8s ==
    /\ pc = "init_k8s"
    /\ \E r \in SubprocessResults :
        IF r = "timeout"
        THEN Raise(TimeoutExpired, <<Ev("call", "init_k8s_user")>>)
        ELSE Continue("kubeconfig", "init_k8s", <<Ev("call", "init_k8s_user")>>)
    /\ UNCHANGED <<cfg, user_options, offload, env, fs, outcome, limits,
                   bindings, launch, waiting, portVars>>

\* lines 347-356
StartKubeConfig ==
    /\ pc = "kubeconfig"
    /\ \E found \in {"present", "absent"} :
        /\ fs' = [fs EXCEPT !.kubeconfig = found]
        /\ IF found = "present"
           THEN /\ env' = Put(env, "KUBECONFIG", "/spark/k8s-user.config")
                /\ Continue("hadoop_auth", "kubeconfig", <<>>)
           ELSE /\ env' = env
                /\ Raise(Err("RuntimeError", "k8s_connection"), <<>>)
    /\ UNCHANGED <<cfg, user_options, offload, outcome, limits,
                   bindings, launch, waiting, portVars>>

\* the cluster's own name passed on the k8s path too
HadoopAuthArgCluster(cluster) == cluster

\* lines 361 and 371
HadoopAuthArg(cluster) == IF cluster = "k8s" THEN "analytix" ELSE cluster
Krb5Path(cluster) == IF cluster = "k8s" THEN "/spark/krb5cc" ELSE "/tmp/krb5cc"

\* lines 358-366 (k8s) and 368-376 (any other cluster)
StartHadoopAuth ==
    /\ pc = "hadoop_auth"
    /\ \E r \in SubprocessResults :
        IF r = "timeout"
        THEN /\ env' = env
             /\ Raise(TimeoutExpired, <<Ev("call", "hadoop_auth:" \o HadoopAuthArg(Cluster))>>)
        ELSE /\ env' = Put(env, "KRB5CCNAME", Krb5Path(Cluster))
             /\ Continue("tokens", "hadoop_auth",
                         <<Ev("call", "hadoop_auth:" \o HadoopAuthArg(Cluster))>>)
    /\ UNCHANGED <<cfg, user_options, offload, fs, outcome, limits,
                   bindings, launch, waiting, portVars>>

\* `or` in place of `and`
TokensPresentEither(hadoop, webhdfs) == hadoop = "present" \/ webhdfs # "absent"

\* line 379
TokensPresent(hadoop, webhdfs) == hadoop = "present" /\ webhdfs # "absent"

\* every cluster tolerated the way k8s is
MissingTokensTolerated(cluster) ==
    IF cluster = "nxcals" \/ cluster = "k8s" THEN NoExc
    ELSE Err("ValueError", "yarn_unsupported")

\* lines 384-399: what missing token files mean for a cluster
MissingTokensError(cluster) ==
    IF cluster = "nxcals" THEN Err("ValueError", "nxcals_access")
    ELSE IF cluster = "k8s" THEN NoExc
    ELSE Err("ValueError", "yarn_unsupported")

\* lines 378-399
StartTokens ==
    /\ pc = "tokens"
    /\ \E hadoop \in {"present", "absent"}, webhdfs \in {"absent"} \cup TokenValues :
        /\ fs' = [fs EXCEPT !.hadoop_toks = hadoop, !.webhdfs_toks = webhdfs]
        /\ IF TokensPresent(hadoop, webhdfs)
           THEN /\ env' = Put(Put(env, "HADOOP_TOKEN_FILE_LOCATION", "/spark/hadoop.toks"),
                              "WEBHDFS_TOKEN", webhdfs)
                /\ Continue("limits", "tokens", <<>>)
           ELSE /\ env' = env
                /\ IF MissingTokensError(Cluster) = NoExc
                   THEN Continue("limits", "tokens", <<>>)
                   ELSE Raise(MissingTokensError(Cluster), <<>>)
    /\ UNCHANGED <<cfg, user_options, offload, outcome, limits,
                   bindings, launch, waiting, portVars>>

CpuPeriod == 100000

\* the branch of line 410 taken on every backend
NewLimitsCount(old, cores, memory) ==
    [old EXCEPT !.cpu_limit = cores, !.mem_limit = memory]

\* lines 401-411
NewLimits(old, cores, memory) ==
    IF HasHostConfig
    THEN [old EXCEPT !.cpu_period = CpuPeriod, !.cpu_quota = CpuPeriod * cores,
                     !.mem_limit = memory]
    ELSE [old EXCEPT !.cpu_limit = cores, !.mem_limit = memory]

StartLimits ==
    /\ pc = "limits"
    /\ limits' = NewLimits(limits, user_options[user_n_cores], user_options[user_memory])
    /\ Continue("metrics", "limits", <<>>)
    /\ UNCHANGED <<cfg, user_options, offload, env, fs, outcome,
                   bindings, launch, waiting, portVars>>

\* what can go wrong while a batch is pickled and sent to the collector
\* (lines 621-632): nothing, the connect refused, the 2 s timeout, pickle
TelemetryFaults == {"none", "ConnectionRefusedError", "timeout", "PicklingError"}

\* classes that derive from BaseException and not from Exception
BaseOnly == {"KeyboardInterrupt", "SystemExit", "GeneratorExit"}

\* the emitters without their except clause
CaughtByNothing(cls) == FALSE

\* `except Exception` of lines 548, 574 and 611
CaughtByException(cls) == cls \notin BaseOnly

\* what an emitter did: the events it left and the error that got out of it
Emitted(evs) == [events |-> evs, exc |-> NoExc]
Escaped(e) == [events |-> <<>>, exc |-> e]

\* _send_user_metrics, lines 524-549: the batch goes out, or the error of
\* building or sending it is logged
UserMetricsEvents(sent) ==
    IF ~cfg.metrics_on THEN <<>>
    ELSE IF sent THEN <<Ev("send", "spawn_form")>>
    ELSE <<Ev("log_error", "spawn_form")>>

send_user_metrics(fault) ==
    IF ~cfg.metrics_on \/ fault = "none" THEN Emitted(UserMetricsEvents(TRUE))
    ELSE IF CaughtByException(fault) THEN Emitted(UserMetricsEvents(FALSE))
    ELSE Escaped(Err(fault, "spawn_form"))

\* the metric tagged with a fixed name instead of the exception's class
StartMetricEventsUntagged(e) ==
    IF cfg.metrics_on THEN <<Ev("spawn_exception", "Exception")>> ELSE <<>>

\* _send_start_exception_metric, lines 552-575
StartMetricEvents(e) ==
    IF cfg.metrics_on THEN <<Ev("spawn_exception", e.cls)>> ELSE <<>>

\* lines 413-415
StartMetrics ==
    /\ pc = "metrics"
    /\ \E fault \in TelemetryFaults :
        LET m == send_user_metrics(fault) IN
        IF m.exc = NoExc
        THEN Continue("return", "metrics", m.events \o StartMetricEvents(NoExc))
        ELSE Raise(m.exc, m.events)
    /\ UNCHANGED <<cfg, user_options, offload, env, fs, outcome, limits,
                   bindings, launch, waiting, portVars>>

\* line 417 returns the value of the name `startup`; lines 286-417 and the
\* module bind no such name
StartupBound == FALSE

StartReturn ==
    /\ pc = "return"
    /\ IF StartupBound
       THEN /\ Continue("returned", "return", <<Ev("return", "startup")>>)
            /\ outcome' = [kind |-> "returned", exc |-> NoExc]
       ELSE /\ Raise(Err("NameError", "startup"), <<>>)
            /\ UNCHANGED outcome
    /\ UNCHANGED <<cfg, user_options, offload, env, fs, limits,
                   bindings, launch, waiting, portVars>>

\* the except clause without its raise: start() ends normally
ReraiseSwallowed(e) == [kind |-> "returned", exc |-> NoExc]

\* line 421
Reraise(e) == [kind |-> "raised", exc |-> e]

\* lines 418-421
StartExcept ==
    /\ pc = "except"
    /\ trace' = trace \o StartMetricEvents(exc)
    /\ outcome' = Reraise(exc)
    /\ pc' = IF outcome'.kind = "raised" THEN "failed" ELSE "returned"
    /\ UNCHANGED <<cfg, user_options, offload, env, fs, stage, exc, limits,
                   bindings, launch, waiting, portVars>>

(***************************************************************************)
(* _send_exit_metric, stop() and poll()                                    *)
(*                                                                         *)
(* An exit status is None, an integer or a string; integers and strings    *)
(* are kept as their characters.                                           *)
(***************************************************************************)
Digits == {"0", "1", "2", "3", "4", "5", "6", "7", "8", "9"}
NoneStatus == [t |-> "none", v |-> <<>>]
IntStatus(ds) == [t |-> "int", v |-> ds]
StrStatus(cs) == [t |-> "str", v |-> cs]

\* str.isdigit(), line 590
IsDigit(cs) == cs # <<>> /\ \A i \in 1..Len(cs) : cs[i] \in Digits

ExitCodePrefix == <<"E", "x", "i", "t", "C", "o", "d", "e", "=">>

\* 'ExitCode=(\d+)' matches at position i of cs
MatchAt(cs, i) ==
    /\ i + Len(ExitCodePrefix) <= Len(cs)
    /\ \A j \in 1..Len(ExitCodePrefix) : cs[i + j - 1] = ExitCodePrefix[j]
    /\ cs[i + Len(ExitCodePrefix)] \in Digits

\* the digits from position k on, as many as there are
\* the first digit only
DigitRunOne(cs, k) == <<cs[k]>>

RECURSIVE DigitRun(_, _)
DigitRun(cs, k) ==
    IF k <= Len(cs) /\ cs[k] \in Digits
    THEN <<cs[k]>> \o DigitRun(cs, k + 1) ELSE <<>>

\* re.search('ExitCode=(\d+)', cs), line 593: group(1) of the leftmost
\* match, or no match (<<>>)
SearchExitCode(cs) ==
    IF \E i \in 1..Len(cs) : MatchAt(cs, i)
    THEN LET i == CHOOSE k \in 1..Len(cs) :
                    MatchAt(cs, k) /\ \A j \in 1..(k - 1) : ~MatchAt(cs, j)
         IN  DigitRun(cs, i + Len(ExitCodePrefix))
    ELSE <<>>

\* lines 590-597: the value of the metric, or the exception of the try body
ExitValue(status) ==
    IF status.t # "str" THEN [ok |-> FALSE, value |-> <<>>, cls |-> "AttributeError"]
    ELSE IF IsDigit(status.v) THEN [ok |-> TRUE, value |-> status.v, cls |-> "None"]
    ELSE IF SearchExitCode(status.v) = <<>>
    THEN [ok |-> FALSE, value |-> <<>>, cls |-> "Exception"]
    ELSE [ok |-> TRUE, value |-> SearchExitCode(status.v), cls |-> "None"]

\* _send_exit_metric, lines 577-612
send_exit_metric(status) ==
    IF ~cfg.metrics_on THEN Emitted(<<>>)
    ELSE IF ExitValue(status).ok
    THEN Emitted(<<Ev("container_exit_code", Str(ExitValue(status).value))>>)
    ELSE IF CaughtByException(ExitValue(status).cls)
    THEN Emitted(<<Ev("log_error", "container_exit_code")>>)
    ELSE Escaped(Err(ExitValue(status).cls, "container_exit_code"))

\* what the backend's stop can hand back, when it does not raise
StopResults == {"None", "removed"}
BackendError(op) == Err("BackendError", op)

\* the code reported by stop() in place of line 429's
StopExitCodeOne == StrStatus(<<"1">>)

\* line 429
StopExitCode == StrStatus(<<"0">>)

\* the record of a finished stop() or poll(): what the delegated call gave
\* when the coroutine was resumed, then what the emitter left, then what
\* the caller got
Finished(at, call, m, value) ==
    /\ pc' = at
    /\ stage' = "none"
    /\ exc' = NoExc
    /\ fs' = Unseen
    /\ IF m.exc = NoExc
       THEN /\ trace' = <<call>> \o m.events \o <<Ev("return", value)>>
            /\ outcome' = [kind |-> "returned", exc |-> NoExc]
       ELSE /\ trace' = <<call>> \o m.events
            /\ outcome' = [kind |-> "raised", exc |-> m.exc]

\* the coroutine is handed to the event loop at its yield (line 426 or 437)
\* with the backend's future pending; start(), get_env() and
\* options_from_form() have no yield and run between two turns of the loop
Suspend(call) ==
    /\ Resting
    /\ call \notin waiting
    /\ waiting' = waiting \cup {call}
    /\ UNCHANGED <<cfg, user_options, offload, env, fs, pc, stage, exc, outcome,
                   trace, limits, bindings, launch, portVars>>

\* the event loop resumes the coroutine with what the future holds
Resume(call) ==
    /\ Resting
    /\ call \in waiting
    /\ waiting' = waiting \ {call}

\* stop(), lines 423-426, up to the yield
StopBegin == Suspend("stop")

\* stop(), lines 426-432, from the yield on: an error of the delegated stop
\* leaves the method at line 426
StopResume ==
    /\ Resume("stop")
    /\ \/ Finished("stopped", Ev("super_stop_raised", "BackendError"),
                   Escaped(BackendError("stop")), "")
       \/ \E r \in StopResults :
            Finished("stopped", Ev("super_stop", r), send_exit_metric(StopExitCode), r)
    /\ UNCHANGED <<cfg, user_options, offload, env, limits, bindings, launch, portVars>>

ExitCode137 == ExitCodePrefix \o <<"1", "3", "7">>
Garbage == <<"g", "a", "r", "b", "a", "g", "e">>

\* exit statuses in the forms backends give them, and malformed ones
ExitStrings ==
    {<<"0">>, <<"1", "3", "7">>, ExitCode137, Garbage, <<>>, ExitCodePrefix,
     ExitCodePrefix \o <<"1", ",", "E">>, <<"x">> \o ExitCodePrefix \o <<"4", "2">>,
     <<"1", "x">>}

\* what the backend's poll can hand back, when it does not raise: None
\* while the session runs, an integer or a string once it has exited
PollStatuses ==
    {NoneStatus, IntStatus(<<"0">>), IntStatus(<<"1">>)}
        \cup {StrStatus(cs) : cs \in ExitStrings}

\* poll(), lines 434-437, up to the yield
PollBegin == Suspend("poll")

\* poll(), lines 437-444, from the yield on
PollResume ==
    /\ Resume("poll")
    /\ \/ Finished("polled", Ev("super_poll_raised", "BackendError"),
                   Escaped(BackendError("poll")), "")
       \/ \E status \in PollStatuses :
            Finished("polled", Ev("super_poll", status),
                     IF status # NoneStatus THEN send_exit_metric(status) ELSE Emitted(<<>>),
                     status)
    /\ UNCHANGED <<cfg, user_options, offload, env, limits, bindings, launch, portVars>>

(***************************************************************************)
(* get_env()                                                               *)
(***************************************************************************)
UserName == <<"a", "l">>
eos_path_prefix == "/eos/user"
lcg_view_path == "/cvmfs/sft.cern.ch/lcg/views"
k8s_config_script == "/cvmfs/sft.cern.ch/lcg/etc/hadoop-confext/k8s-setconf.sh"
yarn_config_script == "/cvmfs/sft.cern.ch/lcg/etc/hadoop-confext/hadoop-setconf.sh"

PortRange == spark_session_port_range_start..cfg.spark_session_port_range_end
NumReservations == cfg.spark_session_num_ports * cfg.spark_max_sessions

\* line 216: the base class builds its environment from the spawner's
\* stored entries, so what start() wrote to self.env is in it
BaseEnv == env

\* lines 220-223
HomePath ==
    IF cfg.local_home THEN "/scratch/" \o Str(UserName)
    ELSE eos_path_prefix \o "/" \o UserName[1] \o "/" \o Str(UserName)

EnvReads == {lcg_rel_field, platform_field, user_script_env_field}

\* lines 225-239
TemplateEnv ==
    [ROOT_LCG_VIEW_NAME |-> Str(user_options[lcg_rel_field]),
     ROOT_LCG_VIEW_PLATFORM |-> user_options[platform_field],
     USER_ENV_SCRIPT |-> user_options[user_script_env_field],
     ROOT_LCG_VIEW_PATH |-> lcg_view_path,
     USER |-> Str(UserName),
     USER_ID |-> "1000",
     HOME |-> HomePath,
     JPY_USER |-> Str(UserName),
     JPY_COOKIE_NAME |-> "cookie",
     JPY_BASE_URL |-> "/user/al",
     JPY_HUB_PREFIX |-> "/hub",
     JPY_HUB_API_URL |-> "http://hub/api"]

\* the YARN script whatever the cluster
SparkEnvYarnScript ==
    [SPARK_CLUSTER_NAME |-> user_options[spark_cluster_field],
     SPARK_USER |-> Str(UserName),
     SERVER_HOSTNAME |-> "host",
     MAX_MEMORY |-> user_options[user_memory],
     SPARK_CONFIG_SCRIPT |-> yarn_config_script]

\* lines 257-265
SparkEnv ==
    [SPARK_CLUSTER_NAME |-> user_options[spark_cluster_field],
     SPARK_USER |-> Str(UserName),
     SERVER_HOSTNAME |-> "host",
     MAX_MEMORY |-> user_options[user_memory],
     SPARK_CONFIG_SCRIPT |->
        IF user_options[spark_cluster_field] = "k8s"
        THEN k8s_config_script ELSE yarn_config_script]

\* a row of the host's connection table
Entry(o, p, st) == [owner |-> o, port |-> p, st |-> st]

\* ports psutil.net_connections() reports as a local address
LocalPorts(t) == {e.port : e \in {x \in t : x.st # "BOUND"}}

\* the ports a get_reserved_port of this get_env() can return: those of
\* the range that pass the check of line 505
FreePorts == PortRange \ LocalPorts(table)

\* the rows the reservations leave in the connection table (line 518): a
\* returned port stays in TIME_WAIT, so the next reservation of the batch,
\* and of a later get_env(), does not return it
Reservations(got) == {Entry("get_env", got[i], "TIME_WAIT") : i \in 1..Len(got)}

\* n reservations in a row, each returning a port the ones before left free
PortSeqs(n) ==
    {q \in [1..n -> FreePorts] : \A i, j \in 1..n : i # j => q[i] # q[j]}

\* what the loop of lines 272-280 can meet: every reservation returns a
\* port, or the one after the first k raises
Batches == UNION {PortSeqs(n) : n \in 0..NumReservations}

PrimaryPort == 8888
HostPort(ip, port) == [host_ip |-> ip, host_port |-> port]

\* lines 248-253
ClearedBindings ==
    IF cfg.use_internal_ip THEN EmptyDict
    ELSE [p \in {PrimaryPort} |-> HostPort("0.0.0.0", 0)]

\* the bindings of the call before kept (lines 248-249 left out)
BoundPortsKept(got) ==
    [port_bindings |->
        [p \in (DOMAIN bindings.port_bindings) \cup (DOMAIN ClearedBindings)
                \cup {got[i] : i \in 1..Len(got)} |->
            IF \E i \in 1..Len(got) : got[i] = p THEN HostPort("", p)
            ELSE IF p \in DOMAIN ClearedBindings THEN ClearedBindings[p]
            ELSE bindings.port_bindings[p]],
     ports |-> bindings.ports \o got]

\* lines 248-253 and 278-279, for the ports reserved so far
BoundPorts(got) ==
    [port_bindings |->
        [p \in (DOMAIN ClearedBindings) \cup {got[i] : i \in 1..Len(got)} |->
            IF \E i \in 1..Len(got) : got[i] = p
            THEN HostPort("", p) ELSE ClearedBindings[p]],
     ports |-> got]

PortStrings(got) == [i \in 1..Len(got) |-> ToString(got[i])]

\* extra_env written first, the computed variables over it
ExtraFirst == Update(Update(BaseEnv, cfg.extra_env), TemplateEnv)

\* lines 216-242: the base class environment, the computed variables over
\* it, extra_env over both
ComposedEnv == Update(Update(BaseEnv, TemplateEnv), cfg.extra_env)

\* lines 255-281: the offload variables and the port list over that
OffloadEnv(got) ==
    Put(Update(ComposedEnv, SparkEnv), "SPARK_PORTS", Join(PortStrings(got)))

\* what a get_env() gave its caller, and whether it repeats a get_env()
\* that returned for the same request
Again == launch.status = "ok"
Composed(e, got) ==
    [status |-> "ok", env |-> e, reserved |-> got, exc |-> NoExc, again |-> Again]
Failed(e, got) ==
    [status |-> "raised", env |-> EmptyDict, reserved |-> got, exc |-> e,
     again |-> Again]

\* get_env(), lines 212-283
GetEnv ==
    /\ Resting
    /\ \E pwd \in {"found", "missing"}, got \in Batches :
        /\ IF pwd = "missing"
           THEN /\ got = <<>>
                /\ launch' = Failed(Err("KeyError", "getpwnam"), <<>>)
                /\ UNCHANGED bindings
           ELSE IF ~(EnvReads \subseteq DOMAIN user_options)
           THEN /\ got = <<>>
                /\ launch' = Failed(Err("KeyError", "option"), <<>>)
                /\ UNCHANGED bindings
           ELSE IF ~(HasHostConfig /\ HasCreateKwargs)
           THEN /\ got = <<>>
                /\ launch' = Composed(ComposedEnv, <<>>)
                /\ UNCHANGED bindings
           ELSE IF ~offload
           THEN /\ got = <<>>
                /\ launch' = Composed(ComposedEnv, <<>>)
                /\ bindings' = BoundPorts(<<>>)
           ELSE IF ~({spark_cluster_field, user_memory} \subseteq DOMAIN user_options)
           THEN /\ got = <<>>
                /\ launch' = Failed(Err("KeyError", "option"), <<>>)
                /\ bindings' = BoundPorts(<<>>)
           ELSE IF Len(got) < NumReservations
           THEN /\ launch' = Failed(Err("RuntimeError", "ports"), got)
                /\ bindings' = BoundPorts(got)
           ELSE /\ launch' = Composed(OffloadEnv(got), got)
                /\ bindings' = BoundPorts(got)
        /\ table' = table \cup Reservations(got)
    /\ UNCHANGED <<cfg, user_options, offload, env, fs, pc, stage, exc, outcome,
                   trace, limits, waiting, proc>>

Next ==
    \/ OptionsFromForm
    \/ StartBegin
    \/ StartPrime
    \/ StartValidate
    \/ StartGate
    \/ StartClear
    \/ StartInitK8s
    \/ StartKubeConfig
    \/ StartHadoopAuth
    \/ StartTokens
    \/ StartLimits
    \/ StartMetrics
    \/ StartReturn
    \/ StartExcept
    \/ GetEnv

Spec == Init /\ [][Next]_vars

(***************************************************************************)
(* The calls the hub makes over the life of a session: the form, start(),  *)
(* poll() and stop().                                                      *)
(***************************************************************************)
ExitInit ==
    /\ cfg \in ExitConfigs
    /\ user_options \in {EmptyDict} \cup OptionDicts
    /\ offload = FALSE
    /\ env = EmptyDict
    /\ fs = Unseen
    /\ pc = "idle"
    /\ stage = "none"
    /\ exc = NoExc
    /\ outcome = NoOutcome
    /\ trace = <<>>
    /\ limits = NoLimits
    /\ bindings = NoBindings
    /\ launch = NoLaunch
    /\ waiting = {}
    /\ PortInit

NextExit ==
    \/ OptionsFromForm
    \/ StartBegin
    \/ StartPrime
    \/ StartValidate
    \/ StartGate
    \/ StartClear
    \/ StartInitK8s
    \/ StartKubeConfig
    \/ StartHadoopAuth
    \/ StartTokens
    \/ StartLimits
    \/ StartMetrics
    \/ StartReturn
    \/ StartExcept
    \/ StopBegin
    \/ StopResume
    \/ PollBegin
    \/ PollResume

SpecExit == ExitInit /\ [][NextExit]_vars

(***************************************************************************)
(* get_env() under every configuration it reads, for the requests a form   *)
(* or the constructor can set.                                             *)
(***************************************************************************)
EnvInit ==
    /\ cfg \in EnvConfigs
    /\ user_options \in {EmptyDict} \cup OptionDicts
    /\ offload = FALSE
    /\ env = EmptyDict
    /\ fs = Unseen
    /\ pc = "idle"
    /\ stage = "none"
    /\ exc = NoExc
    /\ outcome = NoOutcome
    /\ trace = <<>>
    /\ limits = NoLimits
    /\ bindings = NoBindings
    /\ launch = NoLaunch
    /\ waiting = {}
    /\ PortInit

NextEnv ==
    \/ OptionsFromForm
    \/ GetEnv

SpecEnv == EnvInit /\ [][NextEnv]_vars

(***************************************************************************)
(* get_reserved_port(start, end, n_tries), lines 491-522, one action per   *)
(* system call.  Two callers on one host share the connection table.       *)
(*                                                                         *)
(* The table holds one entry per socket with a local port:                 *)
(*   BOUND     bound, not listening (not listed by psutil.net_connections) *)
(*   LISTEN    listening                                                   *)
(*   TIME_WAIT the accepted connection, closed by this side first          *)
(* bind() with SO_REUSEADDR succeeds unless a socket listens on the port,  *)
(* listen() likewise; a TIME_WAIT entry stops neither (the docstring of    *)
(* get_reserved_port relies on it).                                        *)
(***************************************************************************)
Callers == {"A", "B"}
MaxTries == 2
Universe == spark_session_port_range_start..(spark_session_port_range_start + MaxSpan - 1)

\* the check inverted into never rejecting
PortInUseIgnored(port, snapshot) == FALSE

\* line 505
PortInUse(port, snapshot) == port \in snapshot

CanBind(t, port) == ~\E e \in t : e.port = port /\ e.st = "LISTEN"

\* the first failure taken for the last
LastTryFirst(i, n_tries) == i = 0

\* line 521
LastTry(i, n_tries) == i = n_tries - 1

NewCall(start, end, n) ==
    [pc |-> "pick", start |-> start, end |-> end, n_tries |-> n, i |-> 0,
     port |-> 0, snapshot |-> {}, failed |-> 0, result |-> "none", ret |-> 0]

PortSpecInit ==
    /\ cfg \in {c \in LifeConfigs : c.backend = "docker" /\ c.metrics_on /\ ~c.local_home}
    /\ user_options = EmptyDict
    /\ offload = FALSE
    /\ env = EmptyDict
    /\ fs = Unseen
    /\ pc = "idle"
    /\ stage = "none"
    /\ exc = NoExc
    /\ outcome = NoOutcome
    /\ trace = <<>>
    /\ limits = NoLimits
    /\ bindings = NoBindings
    /\ launch = NoLaunch
    /\ waiting = {}
    /\ \E ext \in SUBSET Universe :
        table = {Entry("ext", p, "LISTEN") : p \in ext}
    /\ \E start \in Universe, end \in Universe, n \in 1..MaxTries :
        /\ start <= end
        /\ proc = [c \in Callers |-> NewCall(start, end, n)]

Own(c) == {e \in table : e.owner = c /\ e.st \in {"BOUND", "LISTEN"}}

\* lines 501-502: a socket is made and a port drawn from [start, end]
PortPick(c) ==
    /\ UNCHANGED lifeVars
    /\ proc[c].pc = "pick"
    /\ \E port \in proc[c].start..proc[c].end :
        proc' = [proc EXCEPT ![c].pc = "snapshot", ![c].port = port, ![c].snapshot = {}]
    /\ UNCHANGED table

\* lines 503-506
PortSnapshot(c) ==
    /\ UNCHANGED lifeVars
    /\ proc[c].pc = "snapshot"
    /\ proc' = [proc EXCEPT ![c].snapshot = LocalPorts(table),
                            ![c].pc = IF PortInUse(proc[c].port, LocalPorts(table))
                                      THEN "except" ELSE "bind"]
    /\ UNCHANGED table

\* lines 507-508
PortBind(c) ==
    /\ UNCHANGED lifeVars
    /\ proc[c].pc = "bind"
    /\ \/ /\ CanBind(table, proc[c].port)
          /\ table' = table \cup {Entry(c, proc[c].port, "BOUND")}
          /\ proc' = [proc EXCEPT ![c].pc = "listen"]
       \/ /\ proc' = [proc EXCEPT ![c].pc = "except"]
          /\ UNCHANGED table

\* line 511
PortListen(c) ==
    /\ UNCHANGED lifeVars
    /\ proc[c].pc = "listen"
    /\ \/ /\ CanBind(table, proc[c].port)
          /\ table' = (table \ Own(c)) \cup {Entry(c, proc[c].port, "LISTEN")}
          /\ proc' = [proc EXCEPT ![c].pc = "connect"]
       \/ /\ proc' = [proc EXCEPT ![c].pc = "except"]
          /\ UNCHANGED table

\* lines 513-517
PortConnect(c) ==
    /\ UNCHANGED lifeVars
    /\ proc[c].pc = "connect"
    /\ \/ proc' = [proc EXCEPT ![c].pc = "accept"]
       \/ proc' = [proc EXCEPT ![c].pc = "except"]
    /\ UNCHANGED table

\* line 518: the accepted connection is dropped at once, which closes it
PortAccept(c) ==
    /\ UNCHANGED lifeVars
    /\ proc[c].pc = "accept"
    /\ \/ /\ table' = table \cup {Entry(c, proc[c].port, "TIME_WAIT")}
          /\ proc' = [proc EXCEPT ![c].pc = "return"]
       \/ /\ proc' = [proc EXCEPT ![c].pc = "except"]
          /\ UNCHANGED table

\* line 519 and the exits of the two with blocks
PortReturn(c) ==
    /\ UNCHANGED lifeVars
    /\ proc[c].pc = "return"
    /\ table' = table \ Own(c)
    /\ proc' = [proc EXCEPT ![c].pc = "done", ![c].result = "returned",
                            ![c].ret = proc[c].port]

\* lines 499 and 520-522, after the with block closed the socket: the
\* last try re-raises, any other goes round the loop, and a loop that
\* runs out of tries leaves the function without a port
AfterFailure(q) ==
    IF LastTry(q.i, q.n_tries)
    THEN [q EXCEPT !.pc = "done", !.result = "raised", !.failed = q.failed + 1]
    ELSE IF q.i + 1 < q.n_tries
    THEN [q EXCEPT !.pc = "pick", !.i = q.i + 1, !.failed = q.failed + 1]
    ELSE [q EXCEPT !.pc = "done", !.result = "returned_none", !.failed = q.failed + 1]

PortExcept(c) ==
    /\ UNCHANGED lifeVars
    /\ proc[c].pc = "except"
    /\ table' = table \ Own(c)
    /\ proc' = [proc EXCEPT ![c] = AfterFailure(proc[c])]

NextPort ==
    \/ \E c \in Callers : PortPick(c)
    \/ \E c \in Callers : PortSnapshot(c)
    \/ \E c \in Callers : PortBind(c)
    \/ \E c \in Callers : PortListen(c)
    \/ \E c \in Callers : PortConnect(c)
    \/ \E c \in Callers : PortAccept(c)
    \/ \E c \in Callers : PortReturn(c)
    \/ \E c \in Callers : PortExcept(c)

SpecPort == PortSpecInit /\ [][NextPort]_vars

(***************************************************************************)
(* Properties of start()                                                   *)
(***************************************************************************)
HasEvent(k) == \E i \in 1..Len(trace) : trace[i].ev = k
Raised == HasEvent("raise")
TokensSeen == fs.hadoop_toks # "unseen"
TokensMissing == TokensSeen /\ ~(fs.hadoop_toks = "present" /\ fs.webhdfs_toks # "absent")
OffloadTo(c) ==
    /\ offload
    /\ spark_cluster_field \in DOMAIN user_options
    /\ user_options[spark_cluster_field] = c
ClusterEnvKeys ==
    {"SPARK_CLUSTER_NAME", "SPARK_USER", "SERVER_HOSTNAME", "MAX_MEMORY",
     "SPARK_CONFIG_SCRIPT", "SPARK_PORTS", "KRB5CCNAME", "KUBECONFIG",
     "HADOOP_TOKEN_FILE_LOCATION", "WEBHDFS_TOKEN"}

\* C1: once a step of start() has raised, the attempt never reaches the
\* return that hands the session to the backend: it stays in the except
\* clause or has failed, and nothing was returned to the caller.
C1_NoLaunchAfterError ==
    Raised =>
        /\ pc \in {"except", "failed"}
        /\ outcome.kind # "returned"
        /\ ~HasEvent("return")

\* a provisioning step raised and the attempt ended as a failure
C1_Witness ==
    /\ pc = "failed"
    /\ Raised
    /\ exc.cls = "RuntimeError"
    /\ outcome.kind = "raised"

\* C2: an attempt whose steps all succeeded, up to and including the
\* success metric, completes without raising.
C2_StartCompletes ==
    stage = "metrics" => (pc \notin {"except", "failed"} /\ ~Raised)

\* C3: every exception of a start attempt, the KeyError of reading the
\* options included, is followed by a failure metric tagged with its class
\* and reaches the caller as the same exception.
C3_EveryErrorMetered ==
    pc = "failed" =>
        /\ outcome.kind = "raised"
        /\ trace # <<>>
        /\ trace[Len(trace)] = Ev("spawn_exception", outcome.exc.cls)

\* C3 as amended: an exception raised inside the try block is, with
\* metrics on, followed by one failure metric tagged with its class and is
\* re-raised as it is; with metrics off no metric follows.  The KeyError
\* of the option reads before the try reaches the caller with no metric.
C3_TryErrorsMetered ==
    pc = "failed" =>
        /\ outcome.kind = "raised"
        /\ trace # <<>>
        /\ IF exc # NoExc
           THEN /\ outcome.exc = exc
                /\ IF cfg.metrics_on
                   THEN /\ trace[Len(trace)] = Ev("spawn_exception", exc.cls)
                        /\ Len(trace) > 1
                        /\ trace[Len(trace) - 1] = Ev("raise", exc.cls)
                   ELSE /\ trace[Len(trace)] = Ev("raise", exc.cls)
                        /\ ~HasEvent("spawn_exception")
           ELSE /\ outcome.exc.cls = "KeyError"
                /\ trace = <<Ev("raise", "KeyError")>>

\* a failed attempt with metrics on whose error came from inside the try
C3_Witness ==
    /\ pc = "failed"
    /\ cfg.metrics_on
    /\ exc.cls = "TimeoutExpired"
    /\ trace[Len(trace)] = Ev("spawn_exception", "TimeoutExpired")

\* C4: an offload start to nxcals that finds the token files missing ends
\* with the access error, and when that error is raised no get_env (the
\* only caller of get_reserved_port) has run since the start began.
C4_AccessDeniedFirst ==
    (OffloadTo("nxcals") /\ TokensMissing) =>
        /\ pc \in {"except", "failed"}
        /\ exc = Err("ValueError", "nxcals_access")
        /\ pc = "except" => (launch = NoLaunch)
        /\ pc = "failed" => (outcome.exc = Err("ValueError", "nxcals_access"))

C4_Witness ==
    /\ OffloadTo("nxcals")
    /\ TokensMissing
    /\ pc = "failed"
    /\ launch = NoLaunch

\* C5: an offload start to a cluster other than k8s that does not find
\* both token files fails: with the access error exactly for nxcals, with
\* the unsupported-configuration error for any other name.
C5_MissingTokensFail ==
    (offload /\ spark_cluster_field \in DOMAIN user_options
        /\ user_options[spark_cluster_field] # "k8s" /\ TokensMissing) =>
        /\ pc \in {"except", "failed"}
        /\ stage = "hadoop_auth"
        /\ exc = IF user_options[spark_cluster_field] = "nxcals"
                 THEN Err("ValueError", "nxcals_access")
                 ELSE Err("ValueError", "yarn_unsupported")

\* one of the two files is there, the other is not
C5_Witness ==
    /\ OffloadTo("hadalytic")
    /\ fs.hadoop_toks = "present"
    /\ fs.webhdfs_toks = "absent"
    /\ pc = "failed"
    /\ exc = Err("ValueError", "yarn_unsupported")

\* C6: an offload start to k8s that found the kube-config and no token
\* files gets through credential provisioning, and from then on the
\* environment holds neither token entry.
C6_K8sTolerant ==
    (OffloadTo("k8s") /\ fs.kubeconfig = "present" /\ TokensMissing) =>
        /\ stage \in {"tokens", "limits", "metrics"}
        /\ exc \in {NoExc, Err("NameError", "startup")}
        /\ "HADOOP_TOKEN_FILE_LOCATION" \notin DOMAIN env
        /\ "WEBHDFS_TOKEN" \notin DOMAIN env

C6_Witness ==
    /\ OffloadTo("k8s")
    /\ fs.kubeconfig = "present"
    /\ TokensMissing
    /\ stage = "tokens"
    /\ pc = "limits"
    /\ DOMAIN env = {"KUBECONFIG", "KRB5CCNAME"}

\* C7: the environment get_env produces for a session whose cluster is
\* 'none' and whose release/platform directory was found holds no
\* cluster-related entry, and no port was reserved for it.
C7_NoClusterEnv ==
    (launch.status = "ok" /\ spark_cluster_field \in DOMAIN user_options
        /\ user_options[spark_cluster_field] = "none" /\ fs.stack = "present") =>
        /\ (DOMAIN launch.env) \cap ClusterEnvKeys = {}
        /\ launch.reserved = <<>>

(***************************************************************************)
(* Properties of get_reserved_port                                         *)
(***************************************************************************)
Calls == DOMAIN proc
Holding(c) == proc[c].pc \in {"bind", "listen", "connect", "accept", "return"}
Reserved(c) ==
    /\ proc[c].result = "returned"
    /\ Entry(c, proc[c].ret, "TIME_WAIT") \in table

\* C8: a call makes at most n_tries attempts; it ends by returning a port
\* of [start, end] or by raising; it raises only when the n_tries-th
\* attempt failed, every earlier failure being followed by a new pick.
C8_PortContract ==
    \A c \in Calls :
        /\ proc[c].i < proc[c].n_tries
        /\ proc[c].failed <= proc[c].n_tries
        /\ proc[c].result \in {"none", "returned", "raised"}
        /\ proc[c].result = "returned" =>
              (proc[c].ret >= proc[c].start /\ proc[c].ret <= proc[c].end)
        /\ proc[c].result = "raised" => proc[c].failed = proc[c].n_tries
        /\ proc[c].pc = "done" => proc[c].result # "none"
        /\ (proc[c].pc = "pick" /\ proc[c].result = "none") =>
              proc[c].failed = proc[c].i

\* a call that returned a port after an attempt of it had failed
C8_Witness ==
    \E c \in Calls :
        /\ proc[c].result = "returned"
        /\ proc[c].failed >= 1
        /\ proc[c].n_tries > 1

\* C9: the port a call binds, and so the port it returns, is not among the
\* local ports of the snapshot taken in that attempt.
C9_NotInSnapshot ==
    \A c \in Calls :
        /\ Holding(c) => proc[c].port \notin proc[c].snapshot
        /\ proc[c].result = "returned" => proc[c].ret \notin proc[c].snapshot
        /\ \A e \in table : e.owner = c => e.port \notin proc[c].snapshot

\* a port returned while the snapshot of the attempt held other ports
C9_Witness ==
    \E c \in Calls :
        /\ proc[c].result = "returned"
        /\ proc[c].snapshot # {}

\* C10: two calls never both hold a reservation (returned, connection in
\* TIME_WAIT) of the same port.
C10_NoDoubleReservation ==
    \A c, d \in Calls :
        (c # d /\ Reserved(c) /\ Reserved(d)) => proc[c].ret # proc[d].ret

(***************************************************************************)
(* Properties of the telemetry emitters, stop() and poll()                 *)
(***************************************************************************)
\* classes of the errors that arise inside the emitters
TelemetryErrors == (TelemetryFaults \ {"none"}) \cup {"AttributeError", "Exception"}
Delegated == trace[1]
Returned == trace[Len(trace)]
LoggedError == HasEvent("log_error")

\* the caller of a finished stop() or poll() got what the backend gave
PassedThrough(call, op) ==
    IF Delegated.ev = call \o "_raised"
    THEN outcome = [kind |-> "raised", exc |-> BackendError(op)]
    ELSE /\ Delegated.ev = call
         /\ outcome = [kind |-> "returned", exc |-> NoExc]
         /\ Returned.ev = "return"
         /\ Returned.arg = Delegated.arg

\* the step resumes a suspended stop() or poll()
Resumed == waiting' # waiting /\ waiting' \subseteq waiting

C11_Isolated ==
    /\ exc.cls \notin TelemetryErrors
    /\ outcome.exc.cls \notin TelemetryErrors
    /\ pc = "stopped" => PassedThrough("super_stop", "stop")
    /\ pc = "polled" => PassedThrough("super_poll", "poll")
    /\ stage = "metrics" => exc \in {NoExc, Err("NameError", "startup")}

C11_Untouched ==
    /\ pc = "metrics" => (pc' = "return" /\ UNCHANGED <<exc, outcome>>)
    /\ (pc = "metrics" \/ Resumed) =>
          UNCHANGED <<env, bindings, limits, user_options, offload, launch>>

\* C11: whatever goes wrong inside an emitter (collector refusing or
\* timing out, pickling, an exit status that is no string or has no known
\* format), start goes on from the metrics step as it does when the batch
\* is sent, stop and poll give their caller what the backend gave, no
\* error of an emitter reaches the except clause of start or a caller, and
\* the steps that emit leave environment, bindings and limits alone.
C11_TelemetryIsolated == []C11_Isolated /\ [][C11_Untouched]_vars

\* a poll whose exit metric failed inside the emitter, and returned
C11_Witness ==
    /\ pc = "polled"
    /\ LoggedError
    /\ Delegated.ev = "super_poll"
    /\ Delegated.arg.t = "int"
    /\ outcome.kind = "returned"

\* the reported call was poll() with a string status and metrics on
PolledString ==
    /\ pc = "polled"
    /\ cfg.metrics_on
    /\ Delegated.ev = "super_poll"
    /\ Delegated.arg.t = "str"

\* digits ds follow 'ExitCode=' in cs at its leftmost occurrence that has
\* a digit after it, and no digit follows them
ExitCodeDigits(cs, ds) ==
    \E i \in 1..Len(cs) :
        /\ ds # <<>>
        /\ IsDigit(ds)
        /\ i + Len(ExitCodePrefix) + Len(ds) - 1 <= Len(cs)
        /\ SubSeq(cs, i, i + Len(ExitCodePrefix) + Len(ds) - 1) = ExitCodePrefix \o ds
        /\ (i + Len(ExitCodePrefix) + Len(ds) <= Len(cs)) =>
              cs[i + Len(ExitCodePrefix) + Len(ds)] \notin Digits
        /\ \A j \in 1..(i - 1) :
              ~\E d \in Digits : 
                  /\ j + Len(ExitCodePrefix) <= Len(cs)
                  /\ SubSeq(cs, j, j + Len(ExitCodePrefix)) = ExitCodePrefix \o <<d>>
HasExitCode(cs) == \E d \in Digits : Contains(ExitCodePrefix \o <<d>>, cs)
DigitSeqs(cs) ==
    {SubSeq(cs, a, b) : a \in 1..Len(cs), b \in 1..Len(cs)}

\* C12: with metrics on, the exit metric of a string status carries the
\* string itself when it is all digits ("0" gives 0), the digits after
\* 'ExitCode=' when it holds that pattern ("ExitCode=137" gives 137), and
\* for any other string ("garbage") there is no exit metric, the error is
\* logged and the caller is returned to normally.
C12_ExitCodeMapping ==
    PolledString =>
        LET cs == Delegated.arg.v IN
        /\ outcome.kind = "returned"
        /\ Len(trace) = 3
        /\ IF IsDigit(cs)
           THEN trace[2] = Ev("container_exit_code", Str(cs))
           ELSE IF HasExitCode(cs)
           THEN \E ds \in DigitSeqs(cs) :
                    /\ ExitCodeDigits(cs, ds)
                    /\ trace[2] = Ev("container_exit_code", Str(ds))
           ELSE trace[2] = Ev("log_error", "container_exit_code")
        /\ cs = <<"0">> => trace[2].arg = "0"
        /\ cs = ExitCode137 => trace[2].arg = "137"
        /\ cs = Garbage => trace[2].ev = "log_error"

\* the pattern found inside a longer status
C12_Witness ==
    /\ PolledString
    /\ Delegated.arg.v = <<"x">> \o ExitCodePrefix \o <<"4", "2">>
    /\ trace[2] = Ev("container_exit_code", "42")

\* C14: every stop() (metrics on) ends with the delegated stop done, then
\* an exit metric with code 0, then the backend's result returned,
\* whatever the delegated stop did.
C14_StopAlwaysReports ==
    (pc = "stopped" /\ cfg.metrics_on) =>
        /\ Len(trace) = 3
        /\ trace[1].ev = "super_stop"
        /\ trace[2] = Ev("container_exit_code", "0")
        /\ trace[3] = Ev("return", trace[1].arg)
        /\ outcome.kind = "returned"

\* C14 as amended: stop() delegates first; when the delegated stop
\* returns, an exit metric with code 0 follows it if metrics are on (none
\* if they are off) and the backend's result is returned; when the
\* delegated stop raises, its error reaches the caller and no exit metric
\* is emitted.  No metric precedes the end of the delegated stop.
C14_StopReports ==
    pc = "stopped" =>
        /\ PassedThrough("super_stop", "stop")
        /\ \A i \in 2..Len(trace) : trace[i].ev \notin {"super_stop", "super_stop_raised"}
        /\ IF Delegated.ev = "super_stop_raised"
           THEN trace = <<Delegated>>
           ELSE IF cfg.metrics_on
           THEN trace = <<Delegated, Ev("container_exit_code", "0"), Ev("return", Delegated.arg)>>
           ELSE trace = <<Delegated, Ev("return", Delegated.arg)>>

C14_Witness ==
    /\ pc = "stopped"
    /\ cfg.metrics_on
    /\ Len(trace) = 3
    /\ trace[1] = Ev("super_stop", "removed")
    /\ trace[2] = Ev("container_exit_code", "0")

\* an exit status the emitter is given a metric value for by its contract:
\* an integer, an all-digit string, a string holding 'ExitCode=<digits>'
WellFormed(status) ==
    \/ status.t = "int"
    \/ status.t = "str" /\ (IsDigit(status.v) \/ HasExitCode(status.v))

\* C15: poll() returns the status the backend's poll returned; with
\* metrics on, a status other than None that is an integer or a
\* well-formed string is followed by an exit metric, and None by nothing.
C15_PollReports ==
    (pc = "polled" /\ Delegated.ev = "super_poll") =>
        /\ PassedThrough("super_poll", "poll")
        /\ Delegated.arg = NoneStatus => Len(trace) = 2
        /\ (cfg.metrics_on /\ WellFormed(Delegated.arg)) =>
              (Len(trace) = 3 /\ trace[2].ev = "container_exit_code")

(***************************************************************************)
(* Properties of get_env()                                                 *)
(***************************************************************************)
PortBinding == HasHostConfig /\ HasCreateKwargs
ReservedSet == {launch.reserved[i] : i \in 1..Len(launch.reserved)}
OffloadKeys ==
    {"SPARK_CLUSTER_NAME", "SPARK_USER", "SERVER_HOSTNAME", "MAX_MEMORY",
     "SPARK_CONFIG_SCRIPT", "SPARK_PORTS"}

\* a get_env() that returned is followed by one that returns, for the same
\* request, environment and configuration
Repeated == launch.status = "ok" /\ launch'.status = "ok" /\ launch'.again

\* C13: a get_env() repeated for the same request, credential environment
\* and configuration returns the environment of the first and leaves the
\* bindings as the first left them.
C13_Idempotent ==
    [][Repeated => (launch'.env = launch.env /\ bindings' = bindings)]_vars

\* the ports of a sequence
PortsOf(q) == {q[i] : i \in 1..Len(q)}

\* C13 as amended: a repeated get_env() that reserves no port (no offload,
\* or a backend without port bindings) returns the environment of the
\* first and leaves the bindings as they were.  One that reserves ports
\* gets none of the ports of the first, which are still in the host's
\* connection table and are rejected as in use: its environment is that
\* of the first but for SPARK_PORTS, which lists its own ports, and the
\* bindings hold its own ports and the primary port only.
C13_IdempotentUpToPorts ==
    [][Repeated =>
          IF launch.reserved = <<>>
          THEN /\ launch'.reserved = <<>>
               /\ launch'.env = launch.env
               /\ bindings' = bindings
          ELSE /\ offload
               /\ PortBinding
               /\ Len(launch'.reserved) = Len(launch.reserved)
               /\ PortsOf(launch'.reserved) \cap PortsOf(launch.reserved) = {}
               /\ launch'.env =
                      [launch.env EXCEPT !["SPARK_PORTS"] = Join(PortStrings(launch'.reserved))]
               /\ launch'.env # launch.env
               /\ bindings'.ports = launch'.reserved
               /\ (DOMAIN bindings'.port_bindings) \ {PrimaryPort} = PortsOf(launch'.reserved)
               /\ PortsOf(launch.reserved) \cup PortsOf(launch'.reserved)
                      \subseteq LocalPorts(table')]_vars

\* a repeated get_env() of an offload session, with the ports of both
\* calls in the connection table
C13_Witness ==
    /\ launch.status = "ok"
    /\ launch.again
    /\ offload
    /\ PortBinding
    /\ launch.reserved # <<>>
    /\ bindings.ports = launch.reserved
    /\ Cardinality(LocalPorts(table)) = 2 * Len(launch.reserved)

\* C19: when a reservation of the batch fails get_env raises, returns no
\* environment and leaves none of the ports reserved before it in the
\* binding map or the port list; when get_env returns for an offload
\* session on a port-binding backend, the map holds one 1:1 binding per
\* reserved port, and SPARK_PORTS lists the ports in reservation order.
C19_BatchAllOrNothing ==
    /\ launch.exc = Err("RuntimeError", "ports") =>
          /\ launch.status = "raised"
          /\ launch.env = EmptyDict
          /\ bindings.ports = <<>>
          /\ (DOMAIN bindings.port_bindings) \cap PortRange = {}
    /\ (launch.status = "ok" /\ offload /\ PortBinding) =>
          /\ Len(launch.reserved) = NumReservations
          /\ bindings.ports = launch.reserved
          /\ (DOMAIN bindings.port_bindings) \ {PrimaryPort} = ReservedSet
          /\ \A p \in ReservedSet : bindings.port_bindings[p] = HostPort("", p)
          /\ launch.env["SPARK_PORTS"] = Join([i \in 1..Len(launch.reserved) |->
                                                 ToString(launch.reserved[i])])

\* C20: every key of extra_env is mapped to its extra_env value in the
\* environment get_env returns.
C20_ExtraEnvWins ==
    launch.status = "ok" =>
        \A k \in DOMAIN cfg.extra_env : launch.env[k] = cfg.extra_env[k]

\* C20 as amended: a key of extra_env is mapped to its extra_env value,
\* except that for an offload session on a port-binding backend the
\* offload variables, written after extra_env, keep their computed values.
C20_ExtraEnvOrder ==
    launch.status = "ok" =>
        \A k \in DOMAIN cfg.extra_env :
            IF offload /\ PortBinding /\ k \in OffloadKeys
            THEN /\ launch.env[k] # cfg.extra_env[k]
                 /\ k = "MAX_MEMORY" => launch.env[k] = user_options[user_memory]
                 /\ k = "SPARK_PORTS" => launch.env[k] = Join(PortStrings(launch.reserved))
            ELSE launch.env[k] = cfg.extra_env[k]

\* extra_env won over HOME and lost to the port list
C20_Witness ==
    /\ launch.status = "ok"
    /\ offload
    /\ PortBinding
    /\ "HOME" \in DOMAIN cfg.extra_env
    /\ launch.env["HOME"] = "/extra/home"
    /\ launch.env["SPARK_PORTS"] = "5001"

(***************************************************************************)
(* Properties of the credential steps of start()                           *)
(***************************************************************************)
CredentialKeys == {"WEBHDFS_TOKEN", "HADOOP_TOKEN_FILE_LOCATION", "KUBECONFIG", "KRB5CCNAME"}
HasCall(name) == \E i \in 1..Len(trace) : trace[i] = Ev("call", name)
HadoopAuthCall(e) == e.ev = "call" /\ e.arg \notin {"auth_script", "init_k8s_user"}

\* the provisioning phase of the attempt is over and it goes on
Provisioned == pc = "limits"

\* the attempt in flight wrote the entry
SetThisAttempt(k) ==
    IF k = "KUBECONFIG" THEN fs.kubeconfig = "present"
    ELSE IF k = "KRB5CCNAME"
    THEN stage = "tokens" /\ \E i \in 1..Len(trace) : HadoopAuthCall(trace[i])
    ELSE fs.hadoop_toks = "present" /\ fs.webhdfs_toks \notin {"absent", "unseen"}

\* C16: when an attempt has finished its provisioning phase, every
\* credential entry in the spawner's environment was written by that
\* attempt.
C16_NoStaleCredentials ==
    Provisioned => \A k \in CredentialKeys \cap DOMAIN env : SetThisAttempt(k)

\* the request is an offload to k8s with a release outside the dev family
\* and the attempt has validated the stack
K8sOffFamily ==
    /\ OffloadTo("k8s")
    /\ lcg_rel_field \in DOMAIN user_options
    /\ ~Contains(<<"d", "e", "v">>, user_options[lcg_rel_field])
    /\ stage \notin {"none", "read", "prime"}
GateFailure ==
    /\ stage = "validate"
    /\ pc \in {"gate", "except", "failed"}
    /\ pc # "gate" => exc = Err("ValueError", "k8s_stack_unsupported")
    /\ pc = "failed" => outcome.exc = Err("ValueError", "k8s_stack_unsupported")

\* C17: an offload to k8s with a release outside the dev family fails at
\* the gate with the unsupported-configuration error, and no subprocess
\* was called in the attempt, under every configuration.
C17_GateBeforeSubprocess ==
    K8sOffFamily => (GateFailure /\ ~HasEvent("call"))

\* C17 as amended: it fails at the gate before any subprocess of the
\* credential provisioning (init-user, Hadoop-auth) is called; the
\* credential-priming script, which start() calls first of all when the
\* home is networked and the script configured, has been called by then.
C17_GateBeforeProvisioning ==
    K8sOffFamily =>
        /\ GateFailure
        /\ \A i \in 1..Len(trace) :
              trace[i].ev = "call" => (i = 1 /\ trace[i].arg = "auth_script")
        /\ HasCall("auth_script") <=> (~cfg.local_home /\ cfg.auth_script # "")

\* rejected at the gate after the priming script ran
C17_Witness ==
    /\ K8sOffFamily
    /\ pc = "failed"
    /\ exc = Err("ValueError", "k8s_stack_unsupported")
    /\ trace[1] = Ev("call", "auth_script")

C18_Order ==
    /\ \A j \in 1..Len(trace) :
          HadoopAuthCall(trace[j]) =>
              IF Cluster = "k8s"
              THEN /\ trace[j].arg = "hadoop_auth:analytix"
                   /\ fs.kubeconfig = "present"
                   /\ \E i \in 1..(j - 1) : trace[i] = Ev("call", "init_k8s_user")
              ELSE /\ trace[j].arg = "hadoop_auth:" \o Cluster
                   /\ ~HasCall("init_k8s_user")
    /\ HasCall("init_k8s_user") => OffloadTo("k8s")
    /\ fs.kubeconfig # "unseen" => HasCall("init_k8s_user")
    /\ fs.kubeconfig = "absent" =>
          /\ pc \in {"except", "failed"}
          /\ exc = Err("RuntimeError", "k8s_connection")
          /\ ~\E j \in 1..Len(trace) : HadoopAuthCall(trace[j])
          /\ "KUBECONFIG" \notin DOMAIN env

Written(k) ==
    /\ k \in DOMAIN env'
    /\ k \in DOMAIN env => env'[k] # env[k]

C18_Sets ==
    /\ (pc = "kubeconfig" /\ pc' = "except") => env' = env
    /\ Written("KUBECONFIG") => (pc = "kubeconfig" /\ fs'.kubeconfig = "present")
    /\ Written("KRB5CCNAME") =>
          (pc = "hadoop_auth" /\ (Cluster = "k8s" => fs.kubeconfig = "present"))

\* C18: on the k8s path the init-user helper is called before the
\* kube-config is looked for; when it is absent the attempt fails with the
\* credential-provisioning error, the Hadoop-auth helper is not called and
\* the failing step writes neither KUBECONFIG nor KRB5CCNAME; the
\* Hadoop-auth helper is called with 'analytix' and only after the
\* kube-config was found; on any other cluster it is called with the
\* cluster's name and the init-user helper is not called.
C18_K8sStepOrder == []C18_Order /\ [][C18_Sets]_vars

\* the kube-config was not there after the init-user helper ran
C18_Witness ==
    /\ OffloadTo("k8s")
    /\ fs.kubeconfig = "absent"
    /\ pc = "failed"
    /\ trace[Len(trace) - 2] = Ev("call", "init_k8s_user")

\* C21: the environment get_env returns for an offload session holds the
\* six offload variables on every backend, the config script being the
\* Kubernetes one exactly when the cluster is 'k8s'.
C21_OffloadEnvEveryBackend ==
    (launch.status = "ok" /\ offload) =>
        /\ OffloadKeys \subseteq DOMAIN launch.env
        /\ (launch.env["SPARK_CONFIG_SCRIPT"] = k8s_config_script)
              <=> (user_options[spark_cluster_field] = "k8s")

\* C21 as amended: on a backend with host-level port-binding configuration
\* it holds the six variables with the cluster name, the user, the host
\* name, the memory quota, the port list and the script chosen by the
\* cluster; on a backend without it get_env computes none of them (a key
\* of that name is there only as extra_env or the base environment has it).
C21_OffloadEnvOnPortBinding ==
    (launch.status = "ok" /\ offload) =>
        IF PortBinding
        THEN /\ OffloadKeys \subseteq DOMAIN launch.env
             /\ launch.env["SPARK_CLUSTER_NAME"] = user_options[spark_cluster_field]
             /\ launch.env["SPARK_USER"] = "al"
             /\ launch.env["SERVER_HOSTNAME"] = "host"
             /\ launch.env["MAX_MEMORY"] = user_options[user_memory]
             /\ launch.env["SPARK_CONFIG_SCRIPT"] =
                    IF user_options[spark_cluster_field] = "k8s"
                    THEN k8s_config_script ELSE yarn_config_script
             /\ launch.env["SPARK_PORTS"] = Join(PortStrings(launch.reserved))
             /\ Len(launch.reserved) = NumReservations
        ELSE /\ launch.reserved = <<>>
             /\ \A k \in OffloadKeys \cap DOMAIN launch.env :
                    \/ k \in DOMAIN cfg.extra_env /\ launch.env[k] = cfg.extra_env[k]
                    \/ k \in DOMAIN env /\ launch.env[k] = env[k]

\* an offload to k8s composed on the port-binding backend
C21_Witness ==
    /\ launch.status = "ok"
    /\ offload
    /\ PortBinding
    /\ user_options[spark_cluster_field] = "k8s"
    /\ launch.env["SPARK_CONFIG_SCRIPT"] = k8s_config_script
    /\ launch.env["SPARK_PORTS"] # ""

(***************************************************************************)
(* Properties of the resource limits, the offload flag and the start       *)
(* metrics                                                                 *)
(***************************************************************************)
C22_LimitsSet ==
    stage \in {"limits", "metrics"} =>
        /\ limits.mem_limit = user_options[user_memory]
        /\ IF HasHostConfig
           THEN /\ limits.cpu_period = 100000
                /\ limits.cpu_quota = 100000 * user_options[user_n_cores]
           ELSE limits.cpu_limit = user_options[user_n_cores]

C22_LimitsKept ==
    limits' # limits => (pc = "limits" /\ pc' = "metrics")

\* C22: once the limits step of an attempt is done, a backend with host
\* configuration has cpu_period 100000 and cpu_quota 100000 times the
\* selected cores, any other has cpu_limit equal to the cores, and
\* mem_limit is the selected memory string; no other step of start, and so
\* no attempt that fails before the limits step, changes the limits.
C22_ResourceLimits == []C22_LimitsSet /\ [][C22_LimitsKept]_vars

\* two cores on the backend with host configuration
C22_Witness ==
    /\ stage = "limits"
    /\ HasHostConfig
    /\ user_options[user_n_cores] = 2
    /\ limits.cpu_quota = 200000
    /\ limits.mem_limit = "8G"

\* start or get_env has run for the options the spawner holds
Ran == pc # "idle" \/ launch.status # "none"
StartOutcomeMetrics == {i \in 1..Len(trace) : trace[i].ev = "spawn_exception"}
AttemptOver == pc \in {"failed", "returned"}

\* C23: whenever start or get_env has run, the offload flag says whether
\* the options name a cluster other than 'none', however the options came
\* to the spawner.
C23_OffloadMatchesCluster ==
    (Ran /\ spark_cluster_field \in DOMAIN user_options) =>
        (offload <=> user_options[spark_cluster_field] # "none")

\* C24: with metrics on, an attempt that read its options and is over has
\* emitted one start-outcome metric, and the one tagged 'None' only if it
\* ended without raising.
C24_OneOutcomeMetric ==
    (cfg.metrics_on /\ AttemptOver /\ stage # "none") =>
        /\ Cardinality(StartOutcomeMetrics) = 1
        /\ (\E i \in StartOutcomeMetrics : trace[i].arg = "None") =>
              outcome.kind = "returned"

====
